---- MODULE Spec2Model ----
(***************************************************************************)
(* Model of list_compute.py: read a list of cluster identifiers, enumerate *)
(* the workspace's clusters into two lookup maps, resolve each identifier  *)
(* (first as an id, then as a name), enrich the row with the policy name   *)
(* through a per-run cache, and write the rows to a CSV file.              *)
(*                                                                         *)
(* Strings are sequences of one-character strings.  Python's None is the   *)
(* value None below, which is distinct from the empty string <<>>; both    *)
(* are falsy.                                                              *)
(***************************************************************************)
EXTENDS Integers, Sequences, FiniteSets

\* ---------------------------------------------------------------- bounds
MaxLines == 2        \* lines of the input file in Spec
MaxClusters == 2     \* cluster records the enumeration yields
MaxFileLines == 2    \* lines of the input file in SpecRead
MaxLineLen == 2      \* characters of a line in SpecRead

\* ---------------------------------------------------------------- values
None == <<"None">>
Whitespace == {" ", "\t"}
Chars == Whitespace \cup {"#", "a"}

Truthy(v) == v # None /\ v # <<>>

RECURSIVE SeqsUpTo(_, _)
SeqsUpTo(S, n) ==
    IF n = 0 THEN {<<>>}
    ELSE LET shorter == SeqsUpTo(S, n - 1)
         IN shorter \cup {Append(s, x) : s \in {t \in shorter : Len(t) = n - 1}, x \in S}

Range(s) == {s[i] : i \in 1..Len(s)}

\* identifiers the main specification puts in the input file: "a" is both a
\* cluster id and a cluster name, "b" only an id, "s" only a name, "x" names
\* nothing, and "#a" is a comment line
MainLines == {<<"a">>, <<"b">>, <<"s">>, <<"x">>, <<"#", "a">>}
ClusterIds == {None, <<"a">>, <<"b">>}
ClusterNames == {None, <<"a">>, <<"s">>}
\* the integer 7, which the workspace may give as a policy id; str makes it "7"
Int7 == <<"int", "7">>
PolicyIds == {<<"p">>, Int7}
ClusterRecords ==
    [cluster_id : ClusterIds, cluster_name : ClusterNames, policy_id : {None} \cup PolicyIds]
EnvValues == {None, <<"h">>}
\* what cluster_policies.get does: raise, or return a policy with or without a name
PolicyReplies ==
    {[raised |-> TRUE, name |-> None],
     [raised |-> FALSE, name |-> None],
     [raised |-> FALSE, name |-> <<"N">>]}

fieldnames == <<<<"cluster_name">>, <<"policy_id">>, <<"policy_name">>>>

VARIABLES
    pc,                  \* position of main()
    file_exists,         \* the input file exists
    file,                \* the lines of the input file
    line_no,             \* lines of the file read so far
    cluster_identifiers, \* read_cluster_list's cluster_ids / main's cluster_identifiers
    host, token,         \* DATABRICKS_HOST, DATABRICKS_TOKEN
    network_used,        \* a call to the workspace has been made
    snapshot,            \* the records the enumeration has yielded so far
    all_clusters,        \* cluster id -> record
    cluster_name_to_id,  \* cluster name -> cluster id
    idx,                 \* identifiers processed by the resolution loop
    clusters,            \* resolved rows
    row_cluster,         \* for each resolved row, the id of the record it was built from
    not_found,           \* identifiers that resolved to nothing
    policy_cache,        \* policy id -> policy name or ''
    policy_log,          \* the calls made to cluster_policies.get, with their outcome
    csv,                 \* the lines of the output file, <<>> while it is not written
    out,                 \* the milestones printed
    exit_code            \* the process's exit code, -1 while it runs

vars == <<pc, file_exists, file, line_no, cluster_identifiers, host, token,
          network_used, snapshot, all_clusters, cluster_name_to_id, idx,
          clusters, row_cluster, not_found, policy_cache, policy_log, csv,
          out, exit_code>>

EmptyMap == [k \in {} |-> None]
Put(m, k, v) == [x \in DOMAIN m \cup {k} |-> IF x = k THEN v ELSE m[x]]

\* ---------------------------------------------------------------- str methods
RECURSIVE lstrip(_)
lstrip(s) == IF s # <<>> /\ Head(s) \in Whitespace THEN lstrip(Tail(s)) ELSE s

RECURSIVE rstrip(_)
rstrip(s) ==
    IF s # <<>> /\ s[Len(s)] \in Whitespace THEN rstrip(SubSeq(s, 1, Len(s) - 1)) ELSE s

\* line.rstrip() in place of line.strip()
strip_right_only(s) == rstrip(s)

strip(s) == rstrip(lstrip(s))

startswith(s, p) == Len(s) >= Len(p) /\ SubSeq(s, 1, Len(p)) = p

\* str(v): a string is returned as it is, an integer as its digits, None as "None"
str(v) ==
    IF v = None THEN <<"N", "o", "n", "e">>
    ELSE IF Len(v) = 2 /\ v[1] = "int" THEN <<v[2]>>
    ELSE v

\* ---------------------------------------------------------------- initial states
InitRest ==
    /\ pc = "read"
    /\ line_no = 0
    /\ cluster_identifiers = <<>>
    /\ network_used = FALSE
    /\ snapshot = <<>>
    /\ all_clusters = EmptyMap
    /\ cluster_name_to_id = EmptyMap
    /\ idx = 0
    /\ clusters = <<>>
    /\ row_cluster = <<>>
    /\ not_found = <<>>
    /\ policy_cache = EmptyMap
    /\ policy_log = <<>>
    /\ csv = <<>>
    /\ out = <<>>
    /\ exit_code = -1

Init ==
    /\ file_exists \in BOOLEAN
    /\ file \in IF file_exists THEN SeqsUpTo(MainLines, MaxLines) ELSE {<<>>}
    /\ host \in EnvValues
    /\ token \in EnvValues
    /\ InitRest

\* the reader alone, on files of arbitrary lines over Chars
InitRead ==
    /\ file_exists = TRUE
    /\ file \in SeqsUpTo(SeqsUpTo(Chars, MaxLineLen), MaxFileLines)
    /\ host = None
    /\ token = None
    /\ InitRest

Exit(message) ==
    /\ out' = Append(out, message)
    /\ exit_code' = 1
    /\ pc' = "exit"

\* ---------------------------------------------------------------- read_cluster_list
ReadMissing ==
    /\ pc = "read"
    /\ ~file_exists
    /\ Exit("file_not_found")
    /\ UNCHANGED <<file_exists, file, line_no, cluster_identifiers, host, token,
                   network_used, snapshot, all_clusters, cluster_name_to_id, idx,
                   clusters, row_cluster, not_found, policy_cache, policy_log, csv>>

KeepLine(line) == line # <<>> /\ ~startswith(line, <<"#">>)

ReadLine ==
    /\ pc = "read"
    /\ file_exists
    /\ line_no < Len(file)
    /\ line_no' = line_no + 1
    /\ LET line == strip(file[line_no + 1])
       IN cluster_identifiers' =
              IF KeepLine(line) THEN Append(cluster_identifiers, line)
              ELSE cluster_identifiers
    /\ UNCHANGED <<pc, file_exists, file, host, token, network_used, snapshot,
                   all_clusters, cluster_name_to_id, idx, clusters, row_cluster,
                   not_found, policy_cache, policy_log, csv, out, exit_code>>

ReadDone ==
    /\ pc = "read"
    /\ file_exists
    /\ line_no = Len(file)
    /\ out' = Append(out, "read")
    /\ pc' = "check"
    /\ UNCHANGED <<file_exists, file, line_no, cluster_identifiers, host, token,
                   network_used, snapshot, all_clusters, cluster_name_to_id, idx,
                   clusters, row_cluster, not_found, policy_cache, policy_log, csv,
                   exit_code>>

\* ---------------------------------------------------------------- main, get_workspace_client
NoIdentifiers ==
    /\ pc = "check"
    /\ cluster_identifiers = <<>>
    /\ Exit("no_identifiers")
    /\ UNCHANGED <<file_exists, file, line_no, cluster_identifiers, host, token,
                   network_used, snapshot, all_clusters, cluster_name_to_id, idx,
                   clusters, row_cluster, not_found, policy_cache, policy_log, csv>>

GetWorkspaceClient ==
    /\ pc = "check"
    /\ cluster_identifiers # <<>>
    /\ IF ~Truthy(host) THEN Exit("no_host")
       ELSE IF ~Truthy(token) THEN Exit("no_token")
       ELSE pc' = "list" /\ UNCHANGED <<out, exit_code>>
    /\ UNCHANGED <<file_exists, file, line_no, cluster_identifiers, host, token,
                   network_used, snapshot, all_clusters, cluster_name_to_id, idx,
                   clusters, row_cluster, not_found, policy_cache, policy_log, csv>>

\* ---------------------------------------------------------------- enumeration
ListClusters ==
    /\ pc = "list"
    /\ network_used' = TRUE
    /\ pc' = "enumerate"
    /\ UNCHANGED <<file_exists, file, line_no, cluster_identifiers, host, token,
                   snapshot, all_clusters, cluster_name_to_id, idx, clusters,
                   row_cluster, not_found, policy_cache, policy_log, csv, out,
                   exit_code>>

IndexById(m, cluster) ==
    IF Truthy(cluster.cluster_id) THEN Put(m, cluster.cluster_id, cluster) ELSE m

IndexByName(m, cluster) ==
    IF Truthy(cluster.cluster_name) THEN Put(m, cluster.cluster_name, cluster.cluster_id)
    ELSE m

\* one iteration of the loop over w.clusters.list(); the workspace gives every
\* cluster its own id, so an id that is present is not yielded twice
EnumerateCluster ==
    /\ pc = "enumerate"
    /\ Len(snapshot) < MaxClusters
    /\ \E cluster \in ClusterRecords :
          /\ Truthy(cluster.cluster_id) => cluster.cluster_id \notin DOMAIN all_clusters
          /\ snapshot' = Append(snapshot, cluster)
          /\ all_clusters' = IndexById(all_clusters, cluster)
          /\ cluster_name_to_id' = IndexByName(cluster_name_to_id, cluster)
    /\ UNCHANGED <<pc, file_exists, file, line_no, cluster_identifiers, host, token,
                   network_used, idx, clusters, row_cluster, not_found,
                   policy_cache, policy_log, csv, out, exit_code>>

EnumerateDone ==
    /\ pc = "enumerate"
    /\ out' = Append(out, "loaded")
    /\ pc' = "resolve"
    /\ UNCHANGED <<file_exists, file, line_no, cluster_identifiers, host, token,
                   network_used, snapshot, all_clusters, cluster_name_to_id, idx,
                   clusters, row_cluster, not_found, policy_cache, policy_log, csv,
                   exit_code>>

EnumerateCancelled ==
    /\ pc = "enumerate"
    /\ Exit("cancelled")
    /\ UNCHANGED <<file_exists, file, line_no, cluster_identifiers, host, token,
                   network_used, snapshot, all_clusters, cluster_name_to_id, idx,
                   clusters, row_cluster, not_found, policy_cache, policy_log, csv>>

\* the handler reports the failure and falls through to the resolution
EnumerateError_fallthrough ==
    /\ pc = "enumerate"
    /\ out' = Append(out, "list_error")
    /\ pc' = "resolve"
    /\ UNCHANGED <<file_exists, file, line_no, cluster_identifiers, host, token,
                   network_used, snapshot, all_clusters, cluster_name_to_id, idx,
                   clusters, row_cluster, not_found, policy_cache, policy_log, csv,
                   exit_code>>

EnumerateError ==
    /\ pc = "enumerate"
    /\ Exit("list_error")
    /\ UNCHANGED <<file_exists, file, line_no, cluster_identifiers, host, token,
                   network_used, snapshot, all_clusters, cluster_name_to_id, idx,
                   clusters, row_cluster, not_found, policy_cache, policy_log, csv>>

\* ---------------------------------------------------------------- get_policy_name
\* the except branch returns without storing the empty marker
get_policy_name_error_uncached(policy_id, cache, reply) ==
    IF ~Truthy(policy_id) THEN [ret |-> None, cache |-> cache, called |-> FALSE]
    ELSE IF policy_id \in DOMAIN cache
    THEN [ret |-> IF Truthy(cache[policy_id]) THEN cache[policy_id] ELSE None,
          cache |-> cache, called |-> FALSE]
    ELSE IF reply.raised THEN [ret |-> None, cache |-> cache, called |-> TRUE]
    ELSE LET policy_name == IF Truthy(reply.name) THEN reply.name ELSE None
         IN [ret |-> policy_name,
             cache |-> Put(cache, policy_id, IF Truthy(policy_name) THEN policy_name ELSE <<>>),
             called |-> TRUE]

\* only a policy that has a name is stored in the cache
get_policy_name_nameless_uncached(policy_id, cache, reply) ==
    IF ~Truthy(policy_id) THEN [ret |-> None, cache |-> cache, called |-> FALSE]
    ELSE IF policy_id \in DOMAIN cache
    THEN [ret |-> IF Truthy(cache[policy_id]) THEN cache[policy_id] ELSE None,
          cache |-> cache, called |-> FALSE]
    ELSE IF reply.raised THEN [ret |-> None, cache |-> Put(cache, policy_id, <<>>), called |-> TRUE]
    ELSE LET policy_name == IF Truthy(reply.name) THEN reply.name ELSE None
         IN [ret |-> policy_name,
             cache |-> IF Truthy(policy_name) THEN Put(cache, policy_id, policy_name) ELSE cache,
             called |-> TRUE]

\* the result of get_policy_name: the value returned, the cache afterwards,
\* and whether cluster_policies.get was called
get_policy_name(policy_id, cache, reply) ==
    IF ~Truthy(policy_id) THEN [ret |-> None, cache |-> cache, called |-> FALSE]
    ELSE LET policy_id_str == str(policy_id)
         IN IF policy_id_str \in DOMAIN cache
            THEN [ret |-> IF Truthy(cache[policy_id_str]) THEN cache[policy_id_str] ELSE None,
                  cache |-> cache, called |-> FALSE]
            ELSE IF reply.raised
            THEN [ret |-> None, cache |-> Put(cache, policy_id_str, <<>>), called |-> TRUE]
            ELSE LET policy_name == IF Truthy(reply.name) THEN str(reply.name) ELSE None
                 IN [ret |-> policy_name,
                     cache |-> Put(cache, policy_id_str,
                                   IF Truthy(policy_name) THEN policy_name ELSE <<>>),
                     called |-> TRUE]

\* ---------------------------------------------------------------- extract_cluster_fields
extract_cluster_fields(cluster) ==
    [cluster_name |-> IF Truthy(cluster.cluster_name) THEN str(cluster.cluster_name) ELSE None,
     policy_id |-> IF cluster.policy_id # None THEN str(cluster.policy_id) ELSE None]

\* ---------------------------------------------------------------- resolution loop
\* cluster is not reset to None at the top of the iteration: an identifier in
\* neither map keeps the record of the row appended last
LookupCluster_stale(identifier) ==
    IF identifier \in DOMAIN all_clusters THEN {all_clusters[identifier]}
    ELSE IF identifier \in DOMAIN cluster_name_to_id
    THEN LET cluster_id == cluster_name_to_id[identifier]
         IN IF cluster_id \in DOMAIN all_clusters THEN {all_clusters[cluster_id]} ELSE {}
    ELSE IF row_cluster # <<>> THEN {all_clusters[row_cluster[Len(row_cluster)]]}
    ELSE {}

\* the value of the local variable cluster after the two lookups: the set of
\* the record found, empty when cluster stays None
LookupCluster(identifier) ==
    IF identifier \in DOMAIN all_clusters THEN {all_clusters[identifier]}
    ELSE IF identifier \in DOMAIN cluster_name_to_id
    THEN LET cluster_id == cluster_name_to_id[identifier]
         IN IF cluster_id \in DOMAIN all_clusters THEN {all_clusters[cluster_id]} ELSE {}
    ELSE {}

\* a row equal to one already collected is dropped
AddRow_dedup(rows, cluster_data) ==
    IF cluster_data \in Range(rows) THEN rows ELSE Append(rows, cluster_data)

AddRow(rows, cluster_data) == Append(rows, cluster_data)

\* the not-found identifiers are collected without repetition
AddNotFound_dedup(missing, identifier) ==
    IF identifier \in Range(missing) THEN missing ELSE Append(missing, identifier)

AddNotFound(missing, identifier) == Append(missing, identifier)

ResolveIdentifier ==
    /\ pc = "resolve"
    /\ idx < Len(cluster_identifiers)
    /\ idx' = idx + 1
    /\ \E reply \in PolicyReplies :
          LET identifier == cluster_identifiers[idx + 1]
              found == LookupCluster(identifier)
          IN IF found # {}
             THEN LET cluster == CHOOSE c \in found : TRUE
                      cluster_data == extract_cluster_fields(cluster)
                      policy_id == cluster_data.policy_id
                      r == get_policy_name(policy_id, policy_cache, reply)
                      policy_name_str == IF Truthy(r.ret) THEN str(r.ret) ELSE None
                  IN /\ clusters' = AddRow(clusters,
                                           [cluster_name |-> cluster_data.cluster_name,
                                            policy_id |-> policy_id,
                                            policy_name |-> policy_name_str])
                     /\ row_cluster' = Append(row_cluster, cluster.cluster_id)
                     /\ policy_cache' = r.cache
                     /\ policy_log' =
                            IF r.called
                            THEN Append(policy_log, [policy_id |-> policy_id,
                                                     raised |-> reply.raised,
                                                     at |-> idx + 1])
                            ELSE policy_log
                     /\ UNCHANGED not_found
             ELSE /\ not_found' = AddNotFound(not_found, identifier)
                  /\ UNCHANGED <<clusters, row_cluster, policy_cache, policy_log>>
    /\ UNCHANGED <<pc, file_exists, file, line_no, cluster_identifiers, host, token,
                   network_used, snapshot, all_clusters, cluster_name_to_id, csv,
                   out, exit_code>>

ResolveDone ==
    /\ pc = "resolve"
    /\ idx = Len(cluster_identifiers)
    /\ out' = Append(out, "summary")
    /\ pc' = "export"
    /\ UNCHANGED <<file_exists, file, line_no, cluster_identifiers, host, token,
                   network_used, snapshot, all_clusters, cluster_name_to_id, idx,
                   clusters, row_cluster, not_found, policy_cache, policy_log, csv,
                   exit_code>>

\* ---------------------------------------------------------------- export_to_csv
\* str(value) if value is not None else None, which csv.DictWriter writes as ''
CsvField(value) == IF value # None THEN str(value) ELSE <<>>

CsvLine(cluster) ==
    <<CsvField(cluster.cluster_name), CsvField(cluster.policy_id), CsvField(cluster.policy_name)>>

ExportSkipped ==
    /\ pc = "export"
    /\ clusters = <<>>
    /\ out' = Append(out, "no_clusters_to_export")
    /\ pc' = "done"
    /\ UNCHANGED <<file_exists, file, line_no, cluster_identifiers, host, token,
                   network_used, snapshot, all_clusters, cluster_name_to_id, idx,
                   clusters, row_cluster, not_found, policy_cache, policy_log, csv,
                   exit_code>>

ExportToCsv ==
    /\ pc = "export"
    /\ clusters # <<>>
    /\ csv' = <<fieldnames>> \o [k \in 1..Len(clusters) |-> CsvLine(clusters[k])]
    /\ out' = Append(out, "exported")
    /\ pc' = "done"
    /\ UNCHANGED <<file_exists, file, line_no, cluster_identifiers, host, token,
                   network_used, snapshot, all_clusters, cluster_name_to_id, idx,
                   clusters, row_cluster, not_found, policy_cache, policy_log,
                   exit_code>>

MainDone ==
    /\ pc = "done"
    /\ out' = Append(out, "done")
    /\ exit_code' = 0
    /\ pc' = "exit"
    /\ UNCHANGED <<file_exists, file, line_no, cluster_identifiers, host, token,
                   network_used, snapshot, all_clusters, cluster_name_to_id, idx,
                   clusters, row_cluster, not_found, policy_cache, policy_log, csv>>

\* ---------------------------------------------------------------- specifications
Next ==
    \/ ReadMissing
    \/ ReadLine
    \/ ReadDone
    \/ NoIdentifiers
    \/ GetWorkspaceClient
    \/ ListClusters
    \/ EnumerateCluster
    \/ EnumerateDone
    \/ EnumerateCancelled
    \/ EnumerateError
    \/ ResolveIdentifier
    \/ ResolveDone
    \/ ExportSkipped
    \/ ExportToCsv
    \/ MainDone

Spec == Init /\ [][Next]_vars

NextRead ==
    \/ ReadLine
    \/ ReadDone

SpecRead == InitRead /\ [][NextRead]_vars

TypeOK ==
    /\ pc \in {"read", "check", "list", "enumerate", "resolve", "export", "done", "exit"}
    /\ exit_code \in {-1, 0, 1}
    /\ idx \in 0..Len(cluster_identifiers)
    /\ line_no \in 0..Len(file)

\* ---------------------------------------------------------------- properties
Identifier(i) == cluster_identifiers[i]

\* the identifier is found by the resolution loop
Resolves(identifier) == LookupCluster(identifier) # {}

\* the record an identifier that is found resolves to
ClusterOf(identifier) == CHOOSE c \in LookupCluster(identifier) : TRUE

\* how many of the first n identifiers are found
HitCount(n) == Cardinality({i \in 1..n : Resolves(Identifier(i))})

\* how many times cluster_policies.get was called for a policy id
CallCount(policy_id) ==
    Cardinality({k \in 1..Len(policy_log) : policy_log[k].policy_id = policy_id})

IsIdInSnapshot(identifier) ==
    \E k \in 1..Len(snapshot) : snapshot[k].cluster_id = identifier

IsNameInSnapshot(identifier) ==
    \E k \in 1..Len(snapshot) : snapshot[k].cluster_name = identifier

Enumerated == pc \in {"resolve", "export", "done"} \/ exit_code = 0

\* C1: in a run, cluster_policies.get is called at most once for each policy
\* id, however many resolved rows carry that policy id and whatever the first
\* call did (returned a name, returned no name, raised).
C1_AtMostOneLookup ==
    \A j, k \in 1..Len(policy_log) :
        policy_log[j].policy_id = policy_log[k].policy_id => j = k

\* two rows carry the same policy id, looked up once
C1_Witness ==
    \E i, j \in 1..Len(clusters) :
        /\ i < j
        /\ Truthy(clusters[i].policy_id)
        /\ clusters[i].policy_id = clusters[j].policy_id
        /\ CallCount(clusters[i].policy_id) = 1
        /\ policy_cache[clusters[i].policy_id] = <<>>

\* C2 (as claimed): every processed identifier that is the id or the name of
\* some enumerated cluster is found, is not in the not-found list, and
\* resolves to a record whose id or name is that identifier.
C2_Claimed ==
    \A i \in 1..idx :
        (IsIdInSnapshot(Identifier(i)) \/ IsNameInSnapshot(Identifier(i))) =>
            /\ Resolves(Identifier(i))
            /\ Identifier(i) \notin Range(not_found)
            /\ \A c \in LookupCluster(Identifier(i)) :
                   c.cluster_id = Identifier(i) \/ c.cluster_name = Identifier(i)

\* C3: a processed identifier that is a key of neither map is in the
\* not-found list and adds no row: the rows are at most as many as the
\* processed identifiers that are a key of one of the maps, and the CSV has
\* one data line per row.
InNoMap(identifier) ==
    identifier \notin DOMAIN all_clusters /\ identifier \notin DOMAIN cluster_name_to_id

C3_AbsentIsNotFound ==
    /\ \A i \in 1..idx : InNoMap(Identifier(i)) => Identifier(i) \in Range(not_found)
    /\ Len(clusters) <= Cardinality({i \in 1..idx : ~InNoMap(Identifier(i))})
    /\ Len(not_found) >= Cardinality({i \in 1..idx : InNoMap(Identifier(i))})
    /\ csv # <<>> => Len(csv) - 1 = Len(clusters)

\* the CSV is written after an identifier in neither map followed a found one
C3_Witness ==
    /\ csv # <<>>
    /\ \E i, j \in 1..idx :
          i < j /\ ~InNoMap(Identifier(i)) /\ Resolves(Identifier(i)) /\ InNoMap(Identifier(j))

\* C4 (as claimed): once the enumeration is over, every value of the name map
\* is a key of the id map.
C4_Claimed ==
    Enumerated =>
        \A name \in DOMAIN cluster_name_to_id :
            cluster_name_to_id[name] \in DOMAIN all_clusters

\* the data lines of the CSV built from the record with that id
RowsFor(cluster_id) ==
    Cardinality({k \in 1..Len(row_cluster) : row_cluster[k] = cluster_id})

\* the identifiers of the input that resolve to the record with that id
IdentifiersFor(cluster_id) ==
    {i \in 1..Len(cluster_identifiers) :
        /\ Resolves(Identifier(i))
        /\ ClusterOf(Identifier(i)).cluster_id = cluster_id}

\* C5 (as claimed): in a written CSV every cluster some identifier resolved
\* to has exactly one data line.
C5_Claimed ==
    csv # <<>> =>
        /\ Len(csv) - 1 = Len(row_cluster)
        /\ \A cluster_id \in DOMAIN all_clusters :
               IdentifiersFor(cluster_id) # {} => RowsFor(cluster_id) = 1

\* C5 (amended): in a written CSV every cluster has as many data lines as
\* there are input identifiers that resolved to it, each line holding that
\* cluster's name and policy id.
C5_OneRowPerResolvedIdentifier ==
    csv # <<>> =>
        /\ Len(csv) - 1 = Len(row_cluster)
        /\ \A cluster_id \in DOMAIN all_clusters :
               RowsFor(cluster_id) = Cardinality(IdentifiersFor(cluster_id))
        /\ \A k \in 1..Len(row_cluster) :
               /\ row_cluster[k] \in DOMAIN all_clusters
               /\ csv[k + 1][1] = CsvField(extract_cluster_fields(all_clusters[row_cluster[k]]).cluster_name)
               /\ csv[k + 1][2] = CsvField(extract_cluster_fields(all_clusters[row_cluster[k]]).policy_id)

\* a written CSV in which one cluster, named once by id and once by name, has
\* two data lines
C5_Witness ==
    /\ csv # <<>>
    /\ \E i, j \in 1..Len(cluster_identifiers) :
          /\ Identifier(i) # Identifier(j)
          /\ Resolves(Identifier(i)) /\ Resolves(Identifier(j))
          /\ ClusterOf(Identifier(i)) = ClusterOf(Identifier(j))
          /\ RowsFor(ClusterOf(Identifier(i)).cluster_id) = 2

\* C6: the processed identifiers are split, in input order and with
\* repetitions kept, into the rows (one per identifier that resolved) and the
\* not-found list; the two lengths add up to the number processed.
NotResolved(identifier) == ~Resolves(identifier)

C6_OrderedSplit ==
    /\ Len(clusters) + Len(not_found) = idx
    /\ not_found = SelectSeq(SubSeq(cluster_identifiers, 1, idx), NotResolved)
    /\ Len(clusters) = HitCount(idx)
    /\ Len(row_cluster) = Len(clusters)
    /\ \A i \in 1..idx :
          Resolves(Identifier(i)) =>
              LET h == HitCount(i)
                  cluster == ClusterOf(Identifier(i))
              IN /\ h <= Len(clusters)
                 /\ row_cluster[h] = cluster.cluster_id
                 /\ clusters[h].cluster_name = extract_cluster_fields(cluster).cluster_name
                 /\ clusters[h].policy_id = extract_cluster_fields(cluster).policy_id

\* the same identifier was not found twice, and the loop is over
C6_Witness ==
    /\ pc = "export"
    /\ Len(not_found) >= 2
    /\ not_found[1] = not_found[2]

\* C7: when cluster_policies.get raised for a policy id, the cache holds the
\* empty marker for it, it was called once for it, the run did not exit with
\* an error, and the identifier that triggered the call and every later
\* identifier resolving to a cluster with that policy id has a row, whose
\* policy name is None.
C7_LookupErrorSwallowed ==
    \A k \in 1..Len(policy_log) :
        policy_log[k].raised =>
            LET policy_id == policy_log[k].policy_id
            IN /\ policy_id \in DOMAIN policy_cache
               /\ policy_cache[policy_id] = <<>>
               /\ CallCount(policy_id) = 1
               /\ exit_code # 1
               /\ \A i \in policy_log[k].at..idx :
                      (Resolves(Identifier(i))
                         /\ extract_cluster_fields(ClusterOf(Identifier(i))).policy_id = policy_id) =>
                          /\ HitCount(i) <= Len(clusters)
                          /\ clusters[HitCount(i)].policy_id = policy_id
                          /\ clusters[HitCount(i)].policy_name = None

\* the run ended normally after a lookup raised and two rows carry its policy id
C7_Witness ==
    /\ exit_code = 0
    /\ \E k \in 1..Len(policy_log) :
          /\ policy_log[k].raised
          /\ \E i, j \in 1..Len(clusters) :
                /\ i < j
                /\ clusters[i].policy_id = policy_log[k].policy_id
                /\ clusters[j].policy_id = policy_log[k].policy_id
                /\ clusters[j].policy_name = None

\* C8: a run with a fatal condition exits with code 1 with nothing resolved,
\* no policy looked up and no CSV written, and for the conditions on the
\* input file and the environment without any call to the workspace; exit
\* code 0 only follows the enumeration, the whole resolution and the export
\* step.
FatalMessages ==
    {"file_not_found", "no_identifiers", "no_host", "no_token", "list_error", "cancelled"}

PreFlightMessages == {"file_not_found", "no_identifiers", "no_host", "no_token"}

NothingDone ==
    /\ idx = 0
    /\ clusters = <<>>
    /\ not_found = <<>>
    /\ policy_log = <<>>
    /\ policy_cache = EmptyMap
    /\ csv = <<>>

C8_FatalExits ==
    /\ \A m \in Range(out) \cap FatalMessages :
          /\ pc = "exit"
          /\ exit_code = 1
          /\ NothingDone
          /\ m \in PreFlightMessages => ~network_used
    /\ (pc = "exit" /\ (~file_exists \/ cluster_identifiers = <<>>
                          \/ ~Truthy(host) \/ ~Truthy(token))) =>
          /\ exit_code = 1
          /\ NothingDone
          /\ ~network_used
          /\ Range(out) \cap PreFlightMessages # {}
    /\ exit_code = 1 => Range(out) \cap FatalMessages # {}
    /\ exit_code = 0 =>
          /\ network_used
          /\ "loaded" \in Range(out)
          /\ "summary" \in Range(out)
          /\ idx = Len(cluster_identifiers)
          /\ "exported" \in Range(out) \/ "no_clusters_to_export" \in Range(out)
          /\ "exported" \in Range(out) <=> csv # <<>>

\* the enumeration failed after it had yielded a cluster
C8_Witness ==
    /\ pc = "exit"
    /\ "list_error" \in Range(out)
    /\ snapshot # <<>>
    /\ cluster_identifiers # <<>>

\* C9: read_cluster_list returns, in the file's order and with repetitions,
\* the trimmed lines that are neither empty nor start with '#' once trimmed;
\* their number is the number of such lines.
NonSpace(line) == {i \in 1..Len(line) : line[i] \notin Whitespace}

Min(S) == CHOOSE x \in S : \A y \in S : x <= y
Max(S) == CHOOSE x \in S : \A y \in S : x >= y

\* the line without its leading and trailing whitespace
Trimmed(line) ==
    IF NonSpace(line) = {} THEN <<>>
    ELSE SubSeq(line, Min(NonSpace(line)), Max(NonSpace(line)))

IsIdentifierLine(line) == Trimmed(line) # <<>> /\ Trimmed(line)[1] # "#"

C9_ReadKeepsIdentifierLines ==
    LET read == SubSeq(file, 1, line_no)
        kept == SelectSeq(read, IsIdentifierLine)
    IN /\ cluster_identifiers = [k \in 1..Len(kept) |-> Trimmed(kept[k])]
       /\ Len(cluster_identifiers) = Cardinality({i \in 1..line_no : IsIdentifierLine(file[i])})
       /\ pc # "read" => line_no = Len(file)

\* a file whose first line is a comment behind whitespace and whose second
\* line is an identifier followed by whitespace has been read
C9_Witness ==
    /\ pc = "check"
    /\ Len(file) = 2
    /\ file[1] # <<>>
    /\ file[1][1] \in Whitespace
    /\ ~IsIdentifierLine(file[1])
    /\ Trimmed(file[1]) # <<>>
    /\ IsIdentifierLine(file[2])
    /\ file[2] # Trimmed(file[2])
    /\ cluster_identifiers = <<Trimmed(file[2])>>

\* C10 (as claimed): the name map holds for each name the id of the cluster
\* enumerated last with that name; a processed identifier that is a name and
\* no cluster's id resolves to the last cluster enumerated with that name;
\* a processed identifier that is a cluster's id resolves to that cluster.
LastWithName(name) ==
    Max({k \in 1..Len(snapshot) : snapshot[k].cluster_name = name})

C10_NameMapLastWins ==
    \A name \in ClusterNames :
        (Truthy(name) /\ IsNameInSnapshot(name)) =>
            /\ name \in DOMAIN cluster_name_to_id
            /\ cluster_name_to_id[name] = snapshot[LastWithName(name)].cluster_id

C10_IdBeforeName ==
    \A i \in 1..idx :
        IsIdInSnapshot(Identifier(i)) =>
            /\ Resolves(Identifier(i))
            /\ ClusterOf(Identifier(i)).cluster_id = Identifier(i)

C10_Claimed ==
    /\ C10_NameMapLastWins
    /\ C10_IdBeforeName
    /\ \A i \in 1..idx :
          (IsNameInSnapshot(Identifier(i)) /\ ~IsIdInSnapshot(Identifier(i))) =>
              /\ Resolves(Identifier(i))
              /\ ClusterOf(Identifier(i)) = snapshot[LastWithName(Identifier(i))]

====
